---- MODULE Spec2Model ----
(***************************************************************************)
(* Habit tracker (src/api/main.py): the HabitTracker store, its derived    *)
(* statistics, the read views built on them and the band selection of      *)
(* get_insights.                                                           *)
(*                                                                         *)
(* Representation.                                                         *)
(*  - self.habits is a Python dict keyed by habit id.  It is modelled as   *)
(*    the sequence of its values in insertion order; DictSet is d[k] = v   *)
(*    (an existing key keeps its position and gets the new value).         *)
(*  - self.entries is the list of HabitEntry records.                      *)
(*  - A calendar date is its day number.  date.isoformat() zero-pads, so   *)
(*    the string order the code compares dates by is the day-number order. *)
(*  - The clock is <<today, sec>>: the calendar date and the second within *)
(*    it.  datetime.now() rendered to whole seconds is that pair.          *)
(*  - A habit id f"habit_{n}_{%Y%m%d_%H%M%S}" is the triple <<n, day, sec>>*)
(*  - A percentage rounded to one decimal place is kept in tenths of a     *)
(*    percent (66.7 is 667).                                               *)
(*  - disk is the data file: absent, a snapshot written by save_data, or   *)
(*    a file cut short by a failed write (json.load then raises).  A       *)
(*    record of the file is the JSON object, a function from its keys; a   *)
(*    record with a required key missing does not build.                   *)
(*  - ret is the last call: its arguments and what it returned (or the    *)
(*    exception it raised).                                                *)
(***************************************************************************)
EXTENDS Integers, Sequences, FiniteSets, TLC

VARIABLES habits, entries, disk, today, sec, failures, ret

vars == <<habits, entries, disk, today, sec, failures, ret>>

(* ---------------------------- bounds ---------------------------------- *)
\* Spec: the store with its clock, failed saves and restarts.
MaxHabits == 2
MaxDay == 1
MaxSec == 1
MaxFailures == 1
MaxEntries == 2
PreloadMax == 1

Names == {"read"}
Descriptions == {"d"}
Categories == {"health"}
Frequencies == {"daily"}
Counts == {1}
Notes == {"", "n"}

(* ------------------------- helpers on sequences ------------------------ *)
\* [x for x in s if keep[x's index]]: the items of s whose index is in keep,
\* in the order of s.
RECURSIVE Filter(_, _, _)
Filter(s, keep, i) ==
    IF i > Len(s) THEN << >>
    ELSE IF i \in keep THEN <<s[i]>> \o Filter(s, keep, i + 1)
         ELSE Filter(s, keep, i + 1)

Take(s, n) == IF Len(s) <= n THEN s ELSE SubSeq(s, 1, n)

(* --------------------------- the dict --------------------------------- *)
HasKey(hs, id) == \E i \in 1..Len(hs) : hs[i].id = id

Get(hs, id) == hs[CHOOSE i \in 1..Len(hs) : hs[i].id = id]

DictSet(hs, h) ==
    IF HasKey(hs, h.id)
    THEN [i \in 1..Len(hs) |-> IF hs[i].id = h.id THEN h ELSE hs[i]]
    ELSE Append(hs, h)

Ids(hs) == {hs[i].id : i \in 1..Len(hs)}

(* --------------------------- records ---------------------------------- *)
Habit(id, name, description, category, freq, cnt, created) ==
    [id |-> id, name |-> name, description |-> description,
     category |-> category, target_frequency |-> freq, target_count |-> cnt,
     created_date |-> created, is_active |-> TRUE,
     streak_count |-> 0, total_completions |-> 0]

HabitEntry(habit_id, d, completed, notes, ts) ==
    [habit_id |-> habit_id, date |-> d, completed |-> completed,
     notes |-> notes, timestamp |-> ts]

HabitIdByClock(n, d, s) == <<0, d, s>>

HabitId(n, d, s) == <<n, d, s>>

(* ------------------------- persistence -------------------------------- *)
NoFile == [state |-> "absent", habits |-> << >>, entries |-> << >>]

Truncated == [state |-> "truncated", habits |-> << >>, entries |-> << >>]

Snapshot(hs, es) == [state |-> "ok", habits |-> hs, entries |-> es]

\* Habit(**habit_data), HabitEntry(**entry_data): the dataclass constructor
\* raises TypeError unless every field without a default is given and no key
\* is given that is not a field; a field left out takes its default.
HabitRequired ==
    {"id", "name", "description", "category", "target_frequency",
     "target_count", "created_date"}

HabitDefaults == [is_active |-> TRUE, streak_count |-> 0, total_completions |-> 0]

EntryRequired == {"habit_id", "date", "completed"}

EntryDefaults == [notes |-> "", timestamp |-> ""]

Constructs(data, required, defaults) ==
    /\ required \subseteq DOMAIN data
    /\ DOMAIN data \subseteq required \cup DOMAIN defaults

FromData(data, defaults) ==
    IF DOMAIN defaults \subseteq DOMAIN data THEN data
    ELSE [k \in DOMAIN data \cup DOMAIN defaults |->
            IF k \in DOMAIN data THEN data[k] ELSE defaults[k]]

AllConstruct(list, required, defaults) ==
    \A i \in 1..Len(list) : Constructs(list[i], required, defaults)

\* The habits loop of load_data: each record is stored as it is built; the
\* first record the constructor rejects ends the loop (the exception leaves
\* the try block) and what was stored before it stays.
RECURSIVE LoadHabits(_, _, _)
LoadHabits(list, i, acc) ==
    IF i > Len(list) THEN acc
    ELSE IF ~Constructs(list[i], HabitRequired, HabitDefaults) THEN acc
         ELSE LoadHabits(list, i + 1, DictSet(acc, FromData(list[i], HabitDefaults)))

\* The entries loop of load_data, the same way.
RECURSIVE LoadEntries(_, _, _)
LoadEntries(list, i, acc) ==
    IF i > Len(list) THEN acc
    ELSE IF ~Constructs(list[i], EntryRequired, EntryDefaults) THEN acc
         ELSE LoadEntries(list, i + 1, Append(acc, FromData(list[i], EntryDefaults)))

\* load_data: nothing is read when the file is missing or json.load raises.
LoadedHabits(d) == IF d.state = "ok" THEN LoadHabits(d.habits, 1, << >>) ELSE << >>

\* The entries loop is reached only when the habits loop has finished.
LoadedEntries(d) ==
    IF d.state = "ok" /\ AllConstruct(d.habits, HabitRequired, HabitDefaults)
    THEN LoadEntries(d.entries, 1, << >>)
    ELSE << >>

\* load_data ends in its except branch: json.load raised, or a constructor did.
LoadFails(d) ==
    \/ d.state = "truncated"
    \/ /\ d.state = "ok"
       /\ \/ ~AllConstruct(d.habits, HabitRequired, HabitDefaults)
          \/ ~AllConstruct(d.entries, EntryRequired, EntryDefaults)

SaveSkipped(hs, es, outcome, old) == old

\* save_data: outcome "ok" writes the snapshot; "unchanged" is open() raising;
\* "truncated" is the write raising after open(..., 'w') emptied the file.
SaveData(hs, es, outcome, old) ==
    CASE outcome = "ok" -> Snapshot(hs, es)
      [] outcome = "unchanged" -> old
      [] OTHER -> Truncated

SaveOutcomes(maxFailures) ==
    IF failures < maxFailures THEN {"ok", "unchanged", "truncated"} ELSE {"ok"}

Failed(outcome) == IF outcome = "ok" THEN 0 ELSE 1

(* ------------------------- initial state ------------------------------ *)
\* The data file found at start-up: none, or one an earlier run left, holding
\* habits (active or deactivated) created at the first clock reading.
PreloadedHabit(i, active) ==
    [Habit(HabitId(i, 0, 0), "read", "d", "health", "daily", 1, <<0, 0>>)
        EXCEPT !.is_active = active]

InitialFiles ==
    {NoFile} \cup
    {Snapshot([i \in 1..n |-> PreloadedHabit(i - 1, f[i])], << >>) :
        n \in 1..PreloadMax, f \in [1..PreloadMax -> BOOLEAN]}

\* HabitTracker.__init__: empty collections, then load_data.
InitFrom(files) ==
    /\ disk \in files
    /\ habits = LoadedHabits(disk)
    /\ entries = LoadedEntries(disk)
    /\ today = 0
    /\ sec = 0
    /\ failures = 0
    /\ ret = [op |-> "init"]

Init == InitFrom(InitialFiles)

(* --------------------------- create_habit ------------------------------ *)
CreateHabit(name, description, category, freq, cnt, outcome) ==
    LET habit_id == HabitId(Len(habits), today, sec)
        habit == Habit(habit_id, name, description, category, freq, cnt, <<today, sec>>)
        hs == DictSet(habits, habit)
    IN /\ habits' = hs
       /\ disk' = SaveData(hs, entries, outcome, disk)
       /\ failures' = failures + Failed(outcome)
       /\ ret' = [op |-> "create_habit", value |-> habit_id]
       /\ UNCHANGED <<entries, today, sec>>

Create(maxHabits, maxFailures) ==
    /\ Len(habits) < maxHabits
    /\ \E name \in Names, description \in Descriptions, category \in Categories,
          freq \in Frequencies, cnt \in Counts, outcome \in SaveOutcomes(maxFailures) :
            CreateHabit(name, description, category, freq, cnt, outcome)

(* ------------------------ _update_habit_stats -------------------------- *)
\* sorted(s, key=..., reverse=True) with keys[i] the key of s[i]: a stable
\* sort, descending by key; items with equal keys keep their original order.
\* Rank is the place item i ends at.
Rank(keys, i) ==
    1 + Cardinality({j \in 1..Len(keys) :
                        keys[j] > keys[i] \/ (keys[j] = keys[i] /\ j < i)})

SortedDesc(s, keys) ==
    [p \in 1..Len(s) |-> s[CHOOSE i \in 1..Len(s) : Rank(keys, i) = p]]

Dates(es) == [i \in 1..Len(es) |-> es[i].date]

Completed(s) == {i \in 1..Len(s) : s[i].completed}

EntriesOfHabit(es, habit_id) ==
    Filter(es, {i \in 1..Len(es) : es[i].habit_id = habit_id}, 1)

HabitEntriesInLogOrder(es, habit_id) == EntriesOfHabit(es, habit_id)

HabitEntries(es, habit_id) ==
    LET mine == EntriesOfHabit(es, habit_id)
    IN SortedDesc(mine, Dates(mine))

TotalLogged(habit_entries) == Len(habit_entries)

TotalCompletions(habit_entries) == Cardinality(Completed(habit_entries))

RECURSIVE StreakFrom(_, _)
StreakFrom(habit_entries, i) ==
    IF i > Len(habit_entries) THEN 0
    ELSE IF habit_entries[i].completed THEN 1 + StreakFrom(habit_entries, i + 1)
         ELSE 0

CurrentStreak(habit_entries) == StreakFrom(habit_entries, 1)

UpdateHabitStats(hs, es, habit_id) ==
    LET habit_entries == HabitEntries(es, habit_id)
    IN [i \in 1..Len(hs) |->
          IF hs[i].id = habit_id
          THEN [hs[i] EXCEPT !.total_completions = TotalCompletions(habit_entries),
                             !.streak_count = CurrentStreak(habit_entries)]
          ELSE hs[i]]

(* ----------------------------- log_habit ------------------------------- *)
ExistingByDate(es, habit_id, d) ==
    LET hit == {i \in 1..Len(es) : es[i].date = d}
    IN IF hit = {} THEN 0 ELSE CHOOSE i \in hit : \A j \in hit : i <= j

ExistingNever(es, habit_id, d) == 0

\* next((entry for entry in self.entries if ...), None): the index of the first
\* entry of the habit dated d, 0 for None.
ExistingEntry(es, habit_id, d) ==
    LET hit == {i \in 1..Len(es) : es[i].habit_id = habit_id /\ es[i].date = d}
    IN IF hit = {} THEN 0 ELSE CHOOSE i \in hit : \A j \in hit : i <= j

Upsert(es, habit_id, d, completed, notes, ts) ==
    LET k == ExistingEntry(es, habit_id, d)
    IN IF k # 0
       THEN [es EXCEPT ![k].completed = completed, ![k].notes = notes,
                       ![k].timestamp = ts]
       ELSE Append(es, HabitEntry(habit_id, d, completed, notes, ts))

NeverUnknown(hs, habit_id) == TRUE

Known(hs, habit_id) == HasKey(hs, habit_id)

LogHabit(habit_id, completed, notes, outcome) ==
    IF ~Known(habits, habit_id)
    THEN /\ ret' = [op |-> "log_habit", habit_id |-> habit_id, completed |-> completed,
                 notes |-> notes, value |-> FALSE]
         /\ UNCHANGED <<habits, entries, disk, today, sec, failures>>
    ELSE LET es == Upsert(entries, habit_id, today, completed, notes, <<today, sec>>)
             hs == UpdateHabitStats(habits, es, habit_id)
         IN /\ entries' = es
            /\ habits' = hs
            /\ disk' = SaveData(hs, es, outcome, disk)
            /\ failures' = failures + Failed(outcome)
            /\ ret' = [op |-> "log_habit", habit_id |-> habit_id, completed |-> completed,
                    notes |-> notes, value |-> TRUE]
            /\ UNCHANGED <<today, sec>>

\* The ids a caller may pass: every id in the store, and the id the next
\* create_habit would hand out (not in the store now).
ArgIds == Ids(habits) \cup {HabitId(Len(habits), today, sec)}

\* A call that would add an entry is taken only below the model's cap on the
\* log's length; overwriting today's entry is always possible.
Room(habit_id, maxEntries) ==
    \/ Len(entries) < maxEntries
    \/ ExistingEntry(entries, habit_id, today) # 0
    \/ ~HasKey(habits, habit_id)

Log(ids, flags, notesSet, maxEntries, maxFailures) ==
    \E habit_id \in ids, completed \in flags, notes \in notesSet :
        /\ Room(habit_id, maxEntries)
        /\ IF HasKey(habits, habit_id)
           THEN \E outcome \in SaveOutcomes(maxFailures) :
                    LogHabit(habit_id, completed, notes, outcome)
           ELSE LogHabit(habit_id, completed, notes, "ok")

(* ------------------------- clock and restart --------------------------- *)
\* The clock moves between calls; the caller has taken the last result.
Tick(maxSec) ==
    /\ sec < maxSec
    /\ sec' = sec + 1
    /\ ret' = [op |-> "none"]
    /\ UNCHANGED <<habits, entries, disk, today, failures>>

NextDay(maxDay) ==
    /\ today < maxDay
    /\ today' = today + 1
    /\ sec' = 0
    /\ ret' = [op |-> "none"]
    /\ UNCHANGED <<habits, entries, disk, failures>>

\* A new process: HabitTracker.__init__ starts empty and calls load_data.
Restart ==
    /\ habits' = LoadedHabits(disk)
    /\ entries' = LoadedEntries(disk)
    /\ ret' = [op |-> "init"]
    /\ UNCHANGED <<disk, today, sec, failures>>

(* --------------------- a record damaged in the file -------------------- *)
\* The data file lives in the shared temporary directory.  Between two runs
\* something other than this program rewrites one record of it so that a
\* required key is missing: the file is still JSON, the record no longer
\* builds.
Without(data, key) == [k \in DOMAIN data \ {key} |-> data[k]]

DamageHabit(i) ==
    /\ disk' = [disk EXCEPT !.habits[i] = Without(@, "name")]
    /\ ret' = [op |-> "none"]
    /\ UNCHANGED <<habits, entries, today, sec, failures>>

DamageEntry(i) ==
    /\ disk' = [disk EXCEPT !.entries[i] = Without(@, "completed")]
    /\ ret' = [op |-> "none"]
    /\ UNCHANGED <<habits, entries, today, sec, failures>>

Damage ==
    /\ disk.state = "ok"
    /\ ~LoadFails(disk)
    /\ \/ \E i \in 1..Len(disk.habits) : DamageHabit(i)
       \/ \E i \in 1..Len(disk.entries) : DamageEntry(i)

(* --------------------------- rounding ---------------------------------- *)
\* round(num / den * 100, 1) in tenths of a percent, for num >= 0 and den > 0:
\* the nearest tenth, an exact tie going to the even tenth.
RoundTenthsDown(num, den) == (1000 * num) \div den

RoundTenths(num, den) ==
    LET q == (1000 * num) \div den
        r == (1000 * num) % den
    IN IF 2 * r < den THEN q
       ELSE IF 2 * r > den THEN q + 1
       ELSE IF q % 2 = 0 THEN q ELSE q + 1

(* ------------------------- get_habit_progress -------------------------- *)
StartDateOneEarly(end_date, days) == end_date - days

StartDate(end_date, days) == end_date - (days - 1)

\* entries_dict.get(d): the last entry of the habit dated d within the range
\* (a later assignment to the same key replaces the earlier one), 0 for None.
WindowEntry(es, habit_id, start_date, end_date, d) ==
    LET hit == {i \in 1..Len(es) : /\ es[i].habit_id = habit_id
                                   /\ start_date <= es[i].date
                                   /\ es[i].date <= end_date
                                   /\ es[i].date = d}
    IN IF hit = {} THEN 0 ELSE CHOOSE i \in hit : \A j \in hit : j <= i

ProgressList(es, habit_id, start_date, end_date) ==
    [k \in 1..(end_date - start_date + 1) |->
        LET d == start_date + k - 1
            i == WindowEntry(es, habit_id, start_date, end_date, d)
        IN [date |-> d,
            completed |-> IF i = 0 THEN FALSE ELSE es[i].completed,
            notes |-> IF i = 0 THEN "" ELSE es[i].notes]]

CompletedDays(progress) == Cardinality(Completed(progress))

GetHabitProgress(hs, es, habit_id, days, end_date) ==
    IF ~HasKey(hs, habit_id)
    THEN [op |-> "get_habit_progress", habit_id |-> habit_id, days |-> days,
          outcome |-> "empty"]
    ELSE LET progress == ProgressList(es, habit_id, StartDate(end_date, days), end_date)
         IN IF Len(progress) = 0
            THEN [op |-> "get_habit_progress", habit_id |-> habit_id, days |-> days,
                  outcome |-> "ZeroDivisionError"]
            ELSE [op |-> "get_habit_progress", habit_id |-> habit_id, days |-> days,
                  outcome |-> "ok",
                  habit |-> Get(hs, habit_id),
                  progress |-> progress,
                  completion_rate |-> RoundTenths(CompletedDays(progress), Len(progress)),
                  total_days |-> Len(progress),
                  completed_days |-> CompletedDays(progress)]

Progress(minDays, maxDays) ==
    /\ \E habit_id \in ArgIds, days \in minDays..maxDays :
          ret' = GetHabitProgress(habits, entries, habit_id, days, today)
    /\ UNCHANGED <<habits, entries, disk, today, sec, failures>>

(* ----------------------------- get_habits ------------------------------ *)
Active(hs) == {i \in 1..Len(hs) : hs[i].is_active}

GetHabits(hs, active_only) == IF active_only THEN Filter(hs, Active(hs), 1) ELSE hs

(* ---------------------------- get_analytics ---------------------------- *)
TopN == 5

Streaks(hs) == [i \in 1..Len(hs) |-> hs[i].streak_count]

BestStreaksUnsorted(active_habits) == Take(active_habits, TopN)

BestStreaks(active_habits) ==
    Take(SortedDesc(active_habits, Streaks(active_habits)), TopN)

TodayCompleted(es, d) ==
    LET today_entries == Filter(es, {i \in 1..Len(es) : es[i].date = d}, 1)
    IN Cardinality(Completed(today_entries))

Max(a, b) == IF a >= b THEN a ELSE b

CategoryCounts(active_habits) ==
    [c \in {active_habits[i].category : i \in 1..Len(active_habits)} |->
        Cardinality({i \in 1..Len(active_habits) : active_habits[i].category = c})]

GetAnalytics(hs, es, d) ==
    LET active_habits == Filter(hs, Active(hs), 1)
        today_completed == TodayCompleted(es, d)
        best_streaks == BestStreaks(active_habits)
    IN [op |-> "get_analytics",
        total_habits |-> Len(active_habits),
        categories |-> CategoryCounts(active_habits),
        today_completed |-> today_completed,
        today_total |-> Len(active_habits),
        today_completion_rate |-> RoundTenths(today_completed, Max(Len(active_habits), 1)),
        best_streaks |-> [i \in 1..Len(best_streaks) |->
                             [name |-> best_streaks[i].name,
                              streak |-> best_streaks[i].streak_count]]]

Analytics ==
    /\ ret' = GetAnalytics(habits, entries, today)
    /\ UNCHANGED <<habits, entries, disk, today, sec, failures>>

(* ----------------------------- get_insights ---------------------------- *)
\* Rates are in tenths of a percent: 100 is 1000, 80 is 800, 50 is 500.
RatePerfect == 1000
RateOutstanding == 800
RateHalfway == 500
StreakMaster == 30
StreakConsistency == 7
StreakMomentum == 1
ManyHabits == 5
NumTips == 5

CompletionBand(completion_rate) ==
    IF completion_rate = RatePerfect THEN "perfect"
    ELSE IF completion_rate >= RateOutstanding THEN "outstanding"
    ELSE IF completion_rate >= RateHalfway THEN "halfway"
    ELSE "fresh"

\* max([h['streak_count'] for h in habits], default=0)
BestStreak(listed) ==
    IF Len(listed) = 0 THEN 0
    ELSE LET S == {listed[i].streak_count : i \in 1..Len(listed)}
         IN CHOOSE m \in S : \A x \in S : x <= m

StreakBand(best_streak) ==
    IF best_streak >= StreakMaster THEN "master"
    ELSE IF best_streak >= StreakConsistency THEN "consistency"
    ELSE IF best_streak >= StreakMomentum THEN "momentum"
    ELSE "none"

\* max(categories, key=categories.get): the first category, in the order the
\* active habits introduce them, with the largest count; "" when there is none.
MostCommon(active_habits) ==
    LET counts == CategoryCounts(active_habits)
        top == {i \in 1..Len(active_habits) :
                  \A j \in 1..Len(active_habits) :
                      counts[active_habits[j].category] <= counts[active_habits[i].category]}
    IN IF Len(active_habits) = 0 THEN ""
       ELSE active_habits[CHOOSE i \in top : \A j \in top : i <= j].category

TotalBand(total_habits) ==
    IF total_habits >= ManyHabits THEN "many"
    ELSE IF total_habits >= 1 THEN "some"
    ELSE "none"

\* The text returned, reduced to the message chosen in each group and the
\* index of the tip random.choice drew.
GetInsights(hs, es, d, tip) ==
    LET analytics == GetAnalytics(hs, es, d)
        listed == GetHabits(hs, TRUE)
    IN [op |-> "get_insights",
        completion |-> CompletionBand(analytics.today_completion_rate),
        streak |-> StreakBand(BestStreak(listed)),
        category |-> MostCommon(listed),
        total |-> TotalBand(analytics.total_habits),
        tip |-> tip]

Insights ==
    /\ \E tip \in 1..NumTips : ret' = GetInsights(habits, entries, today, tip)
    /\ UNCHANGED <<habits, entries, disk, today, sec, failures>>

(* ---------------------------- specifications --------------------------- *)
Next ==
    \/ Create(MaxHabits, MaxFailures)
    \/ Log(Ids(habits), BOOLEAN, Notes, MaxEntries, MaxFailures)
    \/ Tick(MaxSec)
    \/ NextDay(MaxDay)
    \/ Restart

Spec == Init /\ [][Next]_vars

\* SpecViews: the views over a store whose clock moves by whole days.
ViewHabits == 2
ViewDay == 2
ViewEntries == 2
NonPositive == 1
ViewWindow == 3

NextViews ==
    \/ Create(ViewHabits, 0)
    \/ Log(ArgIds, BOOLEAN, Notes, ViewEntries, 0)
    \/ NextDay(ViewDay)
    \/ Restart
    \/ Progress(0 - NonPositive, ViewWindow)
    \/ Analytics
    \/ Insights

SpecViews == Init /\ [][NextViews]_vars

\* SpecHistory: habits followed over several days.
HistHabits == 2
HistDay == 3
HistEntries == 4

NextHistory ==
    \/ Create(HistHabits, 0)
    \/ Log(Ids(habits), BOOLEAN, {""}, HistEntries, 0)
    \/ NextDay(HistDay)
    \/ Restart

SpecHistory == Init /\ [][NextHistory]_vars

\* SpecTop: more habits than get_analytics lists.
TopHabits == 6
TopDay == 1
TopEntries == 3

NextTop ==
    \/ Create(TopHabits, 0)
    \/ Log(Ids(habits), {TRUE}, {""}, TopEntries, 0)
    \/ NextDay(TopDay)
    \/ Analytics

SpecTop == Init /\ [][NextTop]_vars

\* SpecLoad: the store restarted over a data file that may be cut short or
\* hold a record that does not build.
BadHabits == 2
BadDay == 1
BadEntries == 2
BadFailures == 1

NextLoad ==
    \/ Create(BadHabits, BadFailures)
    \/ Log(Ids(habits), {TRUE}, {""}, BadEntries, BadFailures)
    \/ NextDay(BadDay)
    \/ Damage
    \/ Restart

SpecLoad == Init /\ [][NextLoad]_vars
(* ------------------------------ claims --------------------------------- *)
EntriesOf(habit_id) == {i \in 1..Len(entries) : entries[i].habit_id = habit_id}

CompletedOf(habit_id) == {i \in EntriesOf(habit_id) : entries[i].completed}

\* C1: in every state (so after every create_habit and log_habit, across day
\* changes, failed saves and restarts) each habit's total_completions is the
\* number of entries in the log with its id and completed = true.
C1_TotalMatchesLog ==
    \A i \in 1..Len(habits) :
        habits[i].total_completions = Cardinality(CompletedOf(habits[i].id))

\* A habit logged completed on two days, seen right after the second call.
C1_Witness ==
    /\ ret.op = "log_habit" /\ ret.value
    /\ today >= 1
    /\ \E i \in 1..Len(habits) :
          /\ habits[i].id = ret.habit_id
          /\ habits[i].total_completions = 2
          /\ Cardinality(EntriesOf(habits[i].id)) = 2

KeyCount(es, habit_id, d) ==
    Cardinality({i \in 1..Len(es) : es[i].habit_id = habit_id /\ es[i].date = d})

UniqueKeys == \A i \in 1..Len(entries) : KeyCount(entries, entries[i].habit_id, entries[i].date) = 1

\* A successful log_habit for a habit that already had an entry dated today.
Relog ==
    /\ ret'.op = "log_habit" /\ ret'.value
    /\ KeyCount(entries, ret'.habit_id, today) >= 1

RelogOverwrites ==
    Relog =>
       /\ Len(entries') = Len(entries)
       /\ KeyCount(entries', ret'.habit_id, today) = 1
       /\ \A i \in 1..Len(entries) :
             IF entries[i].habit_id = ret'.habit_id /\ entries[i].date = today
             THEN entries'[i] = [entries[i] EXCEPT !.completed = ret'.completed,
                                                   !.notes = ret'.notes,
                                                   !.timestamp = <<today, sec>>]
             ELSE entries'[i] = entries[i]

\* C3: the log never holds two entries with the same (habit_id, date), and a
\* log_habit for a habit already logged today rewrites that entry's completed,
\* notes and timestamp in place: the log's length does not change.
C3_OneEntryPerKey == UniqueKeys /\ [][UniqueKeys' /\ RelogOverwrites]_vars

\* Today's entry of a habit was logged a second time with other values.
C3_Witness ==
    /\ ret.op = "log_habit" /\ ret.value
    /\ \E i \in 1..Len(entries) :
          /\ entries[i].habit_id = ret.habit_id
          /\ entries[i].date = today
          /\ entries[i].timestamp = <<today, 1>>
          /\ entries[i].notes = "n"
          /\ i < Len(entries)

\* C4: the id create_habit returns is the id of no habit in the store, and the
\* call appends exactly one habit, every earlier habit staying as it was.
C4_FreshId ==
    [][ret'.op = "create_habit" =>
          /\ ret'.value \notin Ids(habits)
          /\ Len(habits') = Len(habits) + 1
          /\ habits'[Len(habits')].id = ret'.value
          /\ \A i \in 1..Len(habits) : habits'[i] = habits[i]]_vars

\* Two habits created at the same clock reading, the second one after a
\* start-up that loaded the first from the data file.
C4_Witness ==
    /\ ret.op = "create_habit"
    /\ Len(habits) = 2
    /\ habits[1].created_date = habits[2].created_date
    /\ habits[2].id = ret.value
    /\ failures = 0

\* C5: a call naming an id that is not in the store fails and changes nothing:
\* log_habit returns False and leaves habits, entries and the data file as they
\* were; get_habit_progress returns the empty result.
C5_UnknownIdIsNoOp ==
    [][/\ (ret'.op = "log_habit" /\ ret'.habit_id \notin Ids(habits)) =>
             (~ret'.value /\ UNCHANGED <<habits, entries, disk>>)
       /\ (ret'.op = "get_habit_progress" /\ ret'.habit_id \notin Ids(habits)) =>
             (ret'.outcome = "empty" /\ UNCHANGED <<habits, entries, disk>>)]_vars

\* log_habit was called with an unknown id while the store held a habit and an
\* entry it could have touched.
C5_Witness ==
    /\ ret.op = "log_habit" /\ ~ret.value
    /\ ret.habit_id \notin Ids(habits)
    /\ Len(habits) >= 1 /\ Len(entries) >= 1

KnownProgress == ret.op = "get_habit_progress" /\ ret.habit_id \in Ids(habits)

DatedEntries(habit_id, d) == {i \in EntriesOf(habit_id) : entries[i].date = d}

IsRounded(rate, num, den) ==
    LET d == rate * den - 1000 * num
    IN 2 * d <= den /\ -2 * d <= den

ProgressFigures ==
    /\ ret.outcome = "ok"
    /\ ret.total_days = ret.days
    /\ 0 <= ret.completed_days /\ ret.completed_days <= ret.total_days
    /\ IsRounded(ret.completion_rate, ret.completed_days, ret.days)

ActiveIds == {habits[i].id : i \in {j \in 1..Len(habits) : habits[j].is_active}}

ActiveCompletedToday == {id \in ActiveIds : \E i \in CompletedOf(id) : entries[i].date = today}

\* C8: get_analytics counts as completed today the active habits that have a
\* completed entry dated today; the rate is that count over max(active, 1), in
\* percent, so it lies in 0..100, and an empty store gives 0 habits and rate 0.
C8_TodayOverActive ==
    ret.op = "get_analytics" =>
       /\ ret.total_habits = Cardinality(ActiveIds)
       /\ ret.today_completed = Cardinality(ActiveCompletedToday)
       /\ IsRounded(ret.today_completion_rate, ret.today_completed,
                    Max(Cardinality(ActiveIds), 1))
       /\ 0 <= ret.today_completion_rate /\ ret.today_completion_rate <= 1000
       /\ Len(habits) = 0 => (ret.total_habits = 0 /\ ret.today_completion_rate = 0)

BandByThreshold(rate) ==
    IF rate >= 1000 THEN "perfect"
    ELSE IF rate >= 800 THEN "outstanding"
    ELSE IF rate >= 500 THEN "halfway"
    ELSE "fresh"

StreakBandByThreshold(best) ==
    IF best >= 30 THEN "master"
    ELSE IF best >= 7 THEN "consistency"
    ELSE IF best >= 1 THEN "momentum"
    ELSE "none"

ActiveStreaks == {habits[i].streak_count : i \in {j \in 1..Len(habits) : habits[j].is_active}}

LargestActiveStreak ==
    IF ActiveStreaks = {} THEN 0 ELSE CHOOSE m \in ActiveStreaks : \A x \in ActiveStreaks : x <= m

\* C10: get_insights picks the completion message by the thresholds >= 100,
\* >= 80, >= 50 on today's completion rate and the streak message by the
\* thresholds >= 30, >= 7, >= 1 on the largest streak of the active habits.
C10_BandsByThreshold ==
    ret.op = "get_insights" =>
       /\ ret.completion =
            BandByThreshold(GetAnalytics(habits, entries, today).today_completion_rate)
       /\ ret.streak = StreakBandByThreshold(LargestActiveStreak)

\* The completed entries of a habit with no not-completed entry of the habit
\* on the same or a later date: the run at the recent end of its history.
RecentRun(habit_id) ==
    {i \in CompletedOf(habit_id) :
        \A j \in EntriesOf(habit_id) :
            entries[j].date >= entries[i].date => entries[j].completed}

DatesOf(habit_id) == {entries[i].date : i \in EntriesOf(habit_id)}

FlagOn(habit_id, d) == \E i \in CompletedOf(habit_id) : entries[i].date = d

\* completed on d0 and d0+1, not completed on d0+2, completed on d0+3
FourDayHistory(habit_id, d0) ==
    /\ DatesOf(habit_id) = {d0, d0 + 1, d0 + 2, d0 + 3}
    /\ FlagOn(habit_id, d0) /\ FlagOn(habit_id, d0 + 1)
    /\ ~FlagOn(habit_id, d0 + 2) /\ FlagOn(habit_id, d0 + 3)

\* completed on d0 and d0+2, nothing logged on d0+1
GapHistory(habit_id, d0) ==
    /\ DatesOf(habit_id) = {d0, d0 + 2}
    /\ FlagOn(habit_id, d0) /\ FlagOn(habit_id, d0 + 2)

\* C2: a habit's streak_count is the number of completed entries met walking
\* its entries from the latest date backward until the first not-completed one;
\* a day without an entry does not end the walk (completed day 1 and day 3 with
\* nothing on day 2 is a streak of 2), and completed, completed, not completed,
\* completed on four days in a row is streak 1 with 3 completions.
C2_StreakIsRecentRun ==
    \A i \in 1..Len(habits) :
        LET h == habits[i]
        IN /\ h.streak_count = Cardinality(RecentRun(h.id))
           /\ \A d0 \in 0..today :
                 /\ GapHistory(h.id, d0) => h.streak_count = 2
                 /\ FourDayHistory(h.id, d0) =>
                        (h.streak_count = 1 /\ h.total_completions = 3)

\* The four-day history, right after the log on the fourth day.
C2_Witness ==
    /\ ret.op = "log_habit" /\ ret.value
    /\ FourDayHistory(ret.habit_id, 0)
    /\ today = 3

ActiveHabits == GetHabits(habits, TRUE)

Position(id) == CHOOSE i \in 1..Len(habits) : habits[i].id = id

Min(a, b) == IF a <= b THEN a ELSE b

\* C9: best_streaks lists min(5, active habits) habits, all active and each
\* once, by streak_count descending, habits of equal streak in store order, and
\* no active habit left out has a larger streak than a listed one.
C9_TopFiveStable ==
    ret.op = "get_analytics" =>
       LET best == BestStreaks(ActiveHabits)
           listed == {best[k].id : k \in 1..Len(best)}
       IN /\ ret.best_streaks =
                [k \in 1..Len(best) |->
                    [name |-> best[k].name, streak |-> best[k].streak_count]]
          /\ Len(best) = Min(TopN, Cardinality(ActiveIds))
          /\ Cardinality(listed) = Len(best)
          /\ \A k \in 1..Len(best) :
                /\ best[k].id \in ActiveIds
                /\ best[k] = habits[Position(best[k].id)]
          /\ \A k \in 1..Len(best), m \in 1..Len(best) :
                k < m =>
                   /\ best[k].streak_count >= best[m].streak_count
                   /\ best[k].streak_count = best[m].streak_count =>
                          Position(best[k].id) < Position(best[m].id)
          /\ \A id \in ActiveIds \ listed, k \in 1..Len(best) :
                habits[Position(id)].streak_count <= best[k].streak_count

\* Six active habits, so one is left out, with a later habit ahead of earlier
\* ones and ties among the rest.
C9_Witness ==
    /\ ret.op = "get_analytics"
    /\ Cardinality(ActiveIds) = 6
    /\ Len(ret.best_streaks) = 5
    /\ habits[1].streak_count = 0
    /\ habits[5].streak_count = 1
    /\ habits[6].streak_count = 2


(* C11: when load_data fails on a malformed data file, the store starts     *)
(* empty: right after a start-up whose load failed, wherever the malformed  *)
(* record sits, the habit collection and the entry log hold nothing.  (No   *)
(* error reaches the caller: Restart always completes.)                     *)
C11_FailedLoadStartsEmpty ==
    (ret.op = "init" /\ LoadFails(disk)) => (habits = << >> /\ entries = << >>)

(* C12: when the save succeeds, create_habit and a successful log_habit     *)
(* return with the data file holding exactly the in-memory habits (their    *)
(* recomputed streak_count and total_completions included) and entries, and *)
(* load_data on that file into a fresh store gives back the same habits and *)
(* entries.                                                                 *)
Mutation ==
    \/ ret'.op = "create_habit"
    \/ ret'.op = "log_habit" /\ ret'.value

C12_SavedBeforeReturn ==
    [][(Mutation /\ failures' = failures) =>
          /\ disk'.state = "ok"
          /\ disk'.habits = habits'
          /\ disk'.entries = entries'
          /\ LoadedHabits(disk') = habits'
          /\ LoadedEntries(disk') = entries']_vars

\* A log_habit has just returned after a good save: the file holds the new
\* entry and the habit with the statistics recomputed from it.
C12_Witness ==
    /\ ret.op = "log_habit"
    /\ ret.value
    /\ ret.completed
    /\ failures = 0
    /\ Get(habits, ret.habit_id).streak_count = 1
    /\ Get(habits, ret.habit_id).total_completions = 1
    /\ disk.state = "ok"
    /\ Get(disk.habits, ret.habit_id).streak_count = 1
    /\ Len(disk.entries) = Len(entries)
    /\ Len(entries) >= 1

(* C13: a successful log_habit on habit h changes nothing but h's           *)
(* streak_count and total_completions and the entry keyed (h, today) (which *)
(* keeps its key, or is appended): every other habit record, every other    *)
(* field of h and every entry of another habit or another date stay as they *)
(* were.  create_habit adds one habit after the existing ones and leaves    *)
(* them and every entry as they were.  Every other call on the store (a     *)
(* log_habit that returns False, the read views) leaves both collections    *)
(* untouched, so no call ever removes a habit or an entry.  A step that     *)
(* starts a new process is not a call on the store.                         *)
SameButStats(before, after) ==
    after = [before EXCEPT !.streak_count = after.streak_count,
                           !.total_completions = after.total_completions]

LogFrame ==
    LET h == ret'.habit_id
    IN /\ Len(habits') = Len(habits)
       /\ \A i \in 1..Len(habits) :
             IF habits[i].id = h THEN SameButStats(habits[i], habits'[i])
             ELSE habits'[i] = habits[i]
       /\ Len(entries') \in {Len(entries), Len(entries) + 1}
       /\ \A i \in 1..Len(entries) :
             /\ entries'[i].habit_id = entries[i].habit_id
             /\ entries'[i].date = entries[i].date
             /\ (entries[i].habit_id # h \/ entries[i].date # today) =>
                    entries'[i] = entries[i]
       /\ Len(entries') > Len(entries) =>
             /\ entries'[Len(entries')].habit_id = h
             /\ entries'[Len(entries')].date = today

CreateFrame ==
    /\ Len(habits') = Len(habits) + 1
    /\ \A i \in 1..Len(habits) : habits'[i] = habits[i]
    /\ entries' = entries

C13_Frame ==
    [][CASE ret'.op = "init" -> TRUE
         [] ret'.op = "log_habit" /\ ret'.value -> LogFrame
         [] ret'.op = "create_habit" -> CreateFrame
         [] OTHER -> habits' = habits /\ entries' = entries]_vars

\* log_habit has just overwritten today's entry of its habit while the log
\* also holds today's entry of another habit, logged after it.
C13_Witness ==
    /\ ret.op = "log_habit"
    /\ ret.value
    /\ Len(habits) = 2
    /\ Len(entries) = 2
    /\ entries[1].habit_id = ret.habit_id
    /\ entries[1].date = today
    /\ entries[1].completed = ret.completed
    /\ entries[2].habit_id # ret.habit_id
    /\ entries[2].date = today
    /\ entries[2].completed # ret.completed

====
